---- MODULE Spec2Model ----
(***************************************************************************)
(* Model of package blobformat (src/blobformat/format.go): the in-memory   *)
(* store of named entries, its setters (Set, SetTwofactor, SetNotes,       *)
(* SetLabels), the snapshot engine (addSnapshot, snapshot, touchUpdated)   *)
(* and the accessors the properties read (User, TwoFactor, NSnapshots,     *)
(* Snapshot).                                                              *)
(*                                                                         *)
(* A Go interface{} value is a record [kind, val]: kind is the dynamic     *)
(* type ("string", "int64", "float64", "bool", "slice" for []interface{},  *)
(* "map" for map[string]interface{}), val the value (a string, a number,   *)
(* a sequence of values, a function from field keys to values).            *)
(* A panic is an outcome: the call unwinds and the store is what the code  *)
(* had made of it when it panicked.                                        *)
(***************************************************************************)
EXTENDS Integers, Sequences, FiniteSets, TLC

VARIABLES blobs, now, nops, last, prev, search, names, loaded

vars == <<blobs, now, nops, last, prev, search, names, loaded>>

(* ---------------- bounds of the model ---------------- *)

\* number of setter calls in a run
MaxOps == 2

\* last value of the wall clock (Unix seconds)
MaxTime == 2

(* ---------------- constants of format.go ---------------- *)

keyUser == "user"

keyPass == "pass"

keyTwoFactor == "twofactor"

keyNotes == "notes"

keyLabels == "labels"

keyUpdated == "updated"

keySnapshots == "snapshots"

protectedKeys == <<keyTwoFactor, keyNotes, keyUpdated, keyLabels, keySnapshots>>

(* ---------------- interface{} values ---------------- *)

Str(s) == [kind |-> "string", val |-> s]

Int64(n) == [kind |-> "int64", val |-> n]

Float64(n) == [kind |-> "float64", val |-> n]

Bool(b) == [kind |-> "bool", val |-> b]

Slice(q) == [kind |-> "slice", val |-> q]

Map(m) == [kind |-> "map", val |-> m]

\* make(map[string]interface{})
EmptyMap == [k \in {} |-> Str("")]

\* m[k] = v on a Go map
Put(m, k, v) == [x \in DOMAIN m \cup {k} |-> IF x = k THEN v ELSE m[x]]

(* ---------------- text functions ---------------- *)

UpperLetters == "ABCDEFGHIJKLMNOPQRSTUVWXYZ"

LowerLetters == "abcdefghijklmnopqrstuvwxyz"

LowerChar(c) ==
    IF \E i \in 1..26 : SubSeq(UpperLetters, i, i) = c
    THEN LET i == CHOOSE j \in 1..26 : SubSeq(UpperLetters, j, j) = c
         IN SubSeq(LowerLetters, i, i)
    ELSE c

RECURSIVE ToLowerFrom(_, _)
ToLowerFrom(s, i) ==
    IF i > Len(s) THEN "" ELSE LowerChar(SubSeq(s, i, i)) \o ToLowerFrom(s, i + 1)

\* a wrong strings.ToLower: the key is compared as the caller spelled it
ToLower_Identity(s) == s

\* strings.ToLower
ToLower(s) == ToLowerFrom(s, 1)

\* strings.HasPrefix
HasPrefix(s, p) == Len(s) >= Len(p) /\ SubSeq(s, 1, Len(p)) = p

\* the loop over protectedKeys in Set
IsProtected(key) == \E i \in 1..Len(protectedKeys) : key = protectedKeys[i]

(* ---------------- net/url and otp, as format.go calls them ---------------- *)

HexDigits == "0123456789ABCDEFabcdef"

IsHex(c) == \E i \in 1..Len(HexDigits) : SubSeq(HexDigits, i, i) = c

\* characters net/url escapes in a path segment, with their escapes
PathEscapeChar(c) ==
    CASE c = "/" -> "%2F"
      [] c = "%" -> "%25"
      [] c = "?" -> "%3F"
      [] c = " " -> "%20"
      [] OTHER -> c

RECURSIVE PathEscapeFrom(_, _)
PathEscapeFrom(s, i) ==
    IF i > Len(s) THEN "" ELSE PathEscapeChar(SubSeq(s, i, i)) \o PathEscapeFrom(s, i + 1)

\* url.PathEscape
PathEscape(s) == PathEscapeFrom(s, 1)

\* characters net/url escapes in a query component, with their escapes
QueryEscapeChar(c) ==
    CASE c = "/" -> "%2F"
      [] c = "%" -> "%25"
      [] c = "?" -> "%3F"
      [] c = ":" -> "%3A"
      [] c = "=" -> "%3D"
      [] c = " " -> "+"
      [] OTHER -> c

RECURSIVE QueryEscapeFrom(_, _)
QueryEscapeFrom(s, i) ==
    IF i > Len(s) THEN "" ELSE QueryEscapeChar(SubSeq(s, i, i)) \o QueryEscapeFrom(s, i + 1)

\* url.Values{"secret": secret}.Encode()
ValuesEncode(secret) == "secret=" \o QueryEscapeFrom(secret, 1)

otpauthPrefix == "otpauth://"

\* the uri SetTwofactor stores for its argument: verbatim, or a totp uri
\* built around a bare secret
CoerceURI(name, uriOrKey) ==
    IF HasPrefix(uriOrKey, otpauthPrefix)
    THEN uriOrKey
    ELSE "otpauth://totp/" \o PathEscape("upass:" \o name) \o "?" \o ValuesEncode(uriOrKey)

\* the prefix of s that ends before the first character of stops
RECURSIVE TakeUntil(_, _, _)
TakeUntil(s, i, stops) ==
    IF i > Len(s) \/ SubSeq(s, i, i) \in stops
    THEN ""
    ELSE SubSeq(s, i, i) \o TakeUntil(s, i + 1, stops)

\* a '%' that is not followed by two hex digits
RECURSIVE HasBadEscapeFrom(_, _)
HasBadEscapeFrom(s, i) ==
    IF i > Len(s) THEN FALSE
    ELSE IF SubSeq(s, i, i) = "%"
         THEN IF i + 2 <= Len(s) /\ IsHex(SubSeq(s, i + 1, i + 1)) /\ IsHex(SubSeq(s, i + 2, i + 2))
              THEN HasBadEscapeFrom(s, i + 3)
              ELSE TRUE
         ELSE HasBadEscapeFrom(s, i + 1)

\* otp.NewKeyFromURL(uri) returns no error: url.Parse accepts the uri, which
\* it does unless host or path (the part before '?') holds a bad escape
NewKeyFromURLOk(uri) == ~HasBadEscapeFrom(TakeUntil(uri, 1, {"?"}), 1)

\* key.Type(): the host of the parsed uri
KeyType(uri) ==
    IF HasPrefix(uri, otpauthPrefix)
    THEN TakeUntil(uri, Len(otpauthPrefix) + 1, {"/", "?"})
    ELSE ""

(* ---------------- the snapshot engine (Blob methods) ---------------- *)

\* a snapshot that does not skip the snapshots key
snapshot_WithSnapshots(B) ==
    [k \in {x \in DOMAIN B : B[x].kind \in {"string", "float64", "int64", "slice"}}
        |-> B[k]]

\* a snapshot that copies a field whatever its kind
snapshot_AllKinds(B) == [k \in DOMAIN B \ {keySnapshots} |-> B[k]]

\* Blob.snapshot: the copy of B without snapshots, of the copied kinds only
snapshot(B) ==
    [k \in {x \in DOMAIN B : /\ x # keySnapshots
                             /\ B[x].kind \in {"string", "float64", "int64", "slice"}}
        |-> B[k]]

\* Blob.addSnapshot: a failed type assertion leaves snaps nil
addSnapshot(B) ==
    LET snaps == IF keySnapshots \notin DOMAIN B
                 THEN <<>>
                 ELSE IF B[keySnapshots].kind = "slice"
                      THEN B[keySnapshots].val
                      ELSE <<>>
    IN Put(B, keySnapshots, Slice(Append(snaps, Map(snapshot(B)))))

\* Blob.touchUpdated at time t
touchUpdated(B, t) == Put(B, keyUpdated, Int64(t))

\* the []interface{} SetNotes and SetLabels build from a []string
uglyConversion(list) == Slice([i \in 1..Len(list) |-> Str(list[i])])

(* ---------------- accessors ---------------- *)

\* Blob.User
User(B) ==
    IF keyUser \notin DOMAIN B THEN [panic |-> FALSE, val |-> ""]
    ELSE IF B[keyUser].kind = "string" THEN [panic |-> FALSE, val |-> B[keyUser].val]
    ELSE [panic |-> TRUE, val |-> ""]

\* Blob.TwoFactor up to the generation of the code: what the call comes to
TwoFactor(B) ==
    IF keyTwoFactor \notin DOMAIN B THEN "none"
    ELSE IF B[keyTwoFactor].kind # "string" THEN "panic"
    ELSE IF ~NewKeyFromURLOk(B[keyTwoFactor].val) THEN "parse_error"
    ELSE IF KeyType(B[keyTwoFactor].val) # "totp" THEN "not_totp"
    ELSE "generate"

\* Blob.Updated: the zero time when updated is unset or of another kind,
\* else the time of that many Unix seconds
Updated(B) ==
    IF keyUpdated \notin DOMAIN B THEN [zero |-> TRUE, unix |-> 0]
    ELSE IF B[keyUpdated].kind \in {"int64", "float64"}
         THEN [zero |-> FALSE, unix |-> B[keyUpdated].val]
         ELSE [zero |-> TRUE, unix |-> 0]

\* Blob.NSnapshots: (n, err)
NSnapshots(B) ==
    IF keySnapshots \notin DOMAIN B THEN [n |-> 0, err |-> FALSE]
    ELSE IF B[keySnapshots].kind # "slice" THEN [n |-> 0, err |-> TRUE]
    ELSE [n |-> Len(B[keySnapshots].val), err |-> FALSE]

\* a Snapshot that counts from the oldest snapshot instead of the newest
Snapshot_Forward(B, index) ==
    IF keySnapshots \notin DOMAIN B THEN [B |-> EmptyMap, err |-> TRUE]
    ELSE IF B[keySnapshots].kind # "slice" THEN [B |-> EmptyMap, err |-> TRUE]
    ELSE LET snaps == B[keySnapshots].val IN
         IF index < 0 \/ index >= Len(snaps) THEN [B |-> EmptyMap, err |-> TRUE]
         ELSE LET snap == snaps[index + 1] IN
              IF snap.kind # "map" THEN [B |-> EmptyMap, err |-> TRUE]
              ELSE [B |-> snap.val, err |-> FALSE]

\* Blob.Snapshot(index): (snapBlob.B, err)
Snapshot(B, index) ==
    IF keySnapshots \notin DOMAIN B THEN [B |-> EmptyMap, err |-> TRUE]
    ELSE IF B[keySnapshots].kind # "slice" THEN [B |-> EmptyMap, err |-> TRUE]
    ELSE LET snaps == B[keySnapshots].val IN
         IF index < 0 \/ index >= Len(snaps) THEN [B |-> EmptyMap, err |-> TRUE]
         ELSE LET snap == snaps[(Len(snaps) - 1 - index) + 1] IN
              IF snap.kind # "map" THEN [B |-> EmptyMap, err |-> TRUE]
              ELSE [B |-> snap.val, err |-> FALSE]

(* ---------------- the store (Blobs methods) ---------------- *)

\* a get that makes the entry it does not find
get_Create(b, name) ==
    IF name \notin DOMAIN b THEN [ok |-> TRUE, B |-> EmptyMap]
    ELSE IF b[name].kind # "map" THEN [ok |-> FALSE, B |-> EmptyMap]
    ELSE [ok |-> TRUE, B |-> b[name].val]

\* Blobs.get (and Blobs.Get, which wraps it): ok is FALSE where it panics;
\* B is the entry's own map, not a copy
get(b, name) ==
    IF name \notin DOMAIN b THEN [ok |-> FALSE, B |-> EmptyMap]
    ELSE IF b[name].kind # "map" THEN [ok |-> FALSE, B |-> EmptyMap]
    ELSE [ok |-> TRUE, B |-> b[name].val]

\* a Set that binds the changed entry in the store under the key instead of
\* under the name
SetResult_StoreKey(b, name, key, value, t) ==
    LET g == get(b, name) IN
    IF ~g.ok THEN [blobs |-> b, outcome |-> "panic"]
    ELSE IF IsProtected(ToLower(key)) THEN [blobs |-> b, outcome |-> "panic"]
    ELSE [blobs |-> Put(b, ToLower(key),
                        Map(Put(touchUpdated(addSnapshot(g.B), t), name, Str(value)))),
          outcome |-> "ok"]

\* Blobs.Set(name, key, value) at time t: the store it leaves and how it ends
SetResult(b, name, key, value, t) ==
    LET g == get(b, name) IN
    IF ~g.ok THEN [blobs |-> b, outcome |-> "panic"]
    ELSE IF IsProtected(ToLower(key)) THEN [blobs |-> b, outcome |-> "panic"]
    ELSE [blobs |-> Put(b, name, Map(Put(touchUpdated(addSnapshot(g.B), t), name, Str(value)))),
          outcome |-> "ok"]

\* a SetTwofactor that snapshots and stamps the entry before it validates
SetTwofactorResult_SnapshotFirst(b, name, uriOrKey, t) ==
    LET g == get(b, name)
        uri == CoerceURI(name, uriOrKey)
    IN
    IF ~g.ok THEN [blobs |-> b, outcome |-> "panic"]
    ELSE IF ~NewKeyFromURLOk(uri)
         THEN [blobs |-> Put(b, name, Map(touchUpdated(addSnapshot(g.B), t))), outcome |-> "error"]
    ELSE [blobs |-> Put(b, name, Map(Put(touchUpdated(addSnapshot(g.B), t), keyTwoFactor, Str(uri)))),
          outcome |-> "ok"]

\* Blobs.SetTwofactor(name, uriOrKey) at time t
SetTwofactorResult(b, name, uriOrKey, t) ==
    LET g == get(b, name)
        uri == CoerceURI(name, uriOrKey)
    IN
    IF ~g.ok THEN [blobs |-> b, outcome |-> "panic"]
    ELSE IF ~NewKeyFromURLOk(uri) THEN [blobs |-> b, outcome |-> "error"]
    ELSE [blobs |-> Put(b, name, Map(Put(touchUpdated(addSnapshot(g.B), t), keyTwoFactor, Str(uri)))),
          outcome |-> "ok"]

\* a SetNotes on an entry whose latest snapshot is not a copy but shares the
\* entry's fields: what it writes shows in the stored snapshot too
SetNotesResult_SharedSnapshot(b, name, notes, t) ==
    LET g == get(b, name)
        B == Put(touchUpdated(g.B, t), keyNotes, uglyConversion(notes))
        n == IF keySnapshots \in DOMAIN B /\ B[keySnapshots].kind = "slice"
             THEN Len(B[keySnapshots].val)
             ELSE 0
    IN
    IF ~g.ok THEN [blobs |-> b, outcome |-> "panic"]
    ELSE IF n = 0 THEN [blobs |-> Put(b, name, Map(B)), outcome |-> "ok"]
    ELSE [blobs |-> Put(b, name,
                        Map(Put(B, keySnapshots,
                                Slice([B[keySnapshots].val EXCEPT
                                         ![n] = Map(Put(@.val, keyNotes, uglyConversion(notes)))])))),
          outcome |-> "ok"]

\* Blobs.SetNotes(name, notes) at time t
SetNotesResult(b, name, notes, t) ==
    LET g == get(b, name) IN
    IF ~g.ok THEN [blobs |-> b, outcome |-> "panic"]
    ELSE [blobs |-> Put(b, name, Map(Put(touchUpdated(g.B, t), keyNotes, uglyConversion(notes)))),
          outcome |-> "ok"]

\* Blobs.SetLabels(name, labels) at time t
SetLabelsResult(b, name, labels, t) ==
    LET g == get(b, name) IN
    IF ~g.ok THEN [blobs |-> b, outcome |-> "panic"]
    ELSE [blobs |-> Put(b, name, Map(Put(touchUpdated(g.B, t), keyLabels, uglyConversion(labels)))),
          outcome |-> "ok"]

(* ---------------- inputs of the model ---------------- *)

\* entry names the callers use; "snapshots" and "updated" are names that are
\* also field keys
Names == {"mail", "snapshots", "updated"}

\* keys handed to Set, in the caller's spelling
Keys == {"user", "User", "notes", "NOTES"}

\* text values handed to Set
Values == {"a", "b"}

\* arguments of SetTwofactor: a bare secret, a totp uri, an hotp uri, a uri
\* url.Parse rejects
TwoFactorInputs == {"A%", "otpauth://totp/x", "otpauth://hotp/x", "otpauth://%zz"}

\* arguments of SetNotes and SetLabels
Lists == {<<>>, <<"n">>}

\* stores a caller may hand to the package (Blobs is a plain map type)
InitStores ==
    { ("mail" :> Map(EmptyMap)),
      ("mail" :> Map(("user" :> Str("u0")) @@ ("updated" :> Float64(0))))
         @@ ("snapshots" :> Map(EmptyMap)),
      ("mail" :> Map(("flag" :> Bool(TRUE)) @@ ("pass" :> Str("p0"))))
         @@ ("snapshots" :> Str("x")),
      ("mail" :> Map(("snapshots" :> Str("old")))),
      ("updated" :> Map(("updated" :> Int64(0)))),
      ("mail" :> Map(("notes" :> Slice(<<Str("n0")>>)) @@ ("labels" :> Slice(<<Str("l0")>>)))) }

(* ---------------- the state machine ---------------- *)

\* the record of a call: its arguments, the time it ran at, how it ended and
\* the store it started from
Call(op, name, key, value, list, t, outcome, pre) ==
    [op |-> op, name |-> name, key |-> key, value |-> value, list |-> list,
     t |-> t, outcome |-> outcome, pre |-> pre]

NoCall(pre) == Call("none", "", "", "", <<>>, 0, "ok", pre)

\* Find and Load have not been called
NoNames == [called |-> FALSE, names |-> {}]

NoLoad == [called |-> FALSE, format |-> [valid |-> FALSE, doc |-> Str("")], err |-> "", blobs |-> EmptyMap]

Init ==
    /\ blobs \in InitStores
    /\ now = 1
    /\ nops = 0
    /\ last = NoCall(blobs)
    /\ prev = NoCall(blobs)
    /\ search = ""
    /\ names = NoNames
    /\ loaded = NoLoad

Record(call) ==
    /\ nops' = nops + 1
    /\ prev' = last
    /\ last' = call
    /\ UNCHANGED <<now, search, names, loaded>>

Set ==
    /\ nops < MaxOps
    /\ \E name \in Names, key \in Keys, value \in Values :
         LET r == SetResult(blobs, name, key, value, now) IN
         /\ blobs' = r.blobs
         /\ Record(Call("Set", name, key, value, <<>>, now, r.outcome, blobs))

SetTwofactor ==
    /\ nops < MaxOps
    /\ \E name \in Names, uriOrKey \in TwoFactorInputs :
         LET r == SetTwofactorResult(blobs, name, uriOrKey, now) IN
         /\ blobs' = r.blobs
         /\ Record(Call("SetTwofactor", name, "", uriOrKey, <<>>, now, r.outcome, blobs))

SetNotes ==
    /\ nops < MaxOps
    /\ \E name \in Names, notes \in Lists :
         LET r == SetNotesResult(blobs, name, notes, now) IN
         /\ blobs' = r.blobs
         /\ Record(Call("SetNotes", name, "", "", notes, now, r.outcome, blobs))

SetLabels ==
    /\ nops < MaxOps
    /\ \E name \in Names, labels \in Lists :
         LET r == SetLabelsResult(blobs, name, labels, now) IN
         /\ blobs' = r.blobs
         /\ Record(Call("SetLabels", name, "", "", labels, now, r.outcome, blobs))

\* time.Now() moves on between calls
Tick ==
    /\ now < MaxTime
    /\ now' = now + 1
    /\ UNCHANGED <<blobs, nops, last, prev, search, names, loaded>>

Next == Set \/ SetTwofactor \/ SetNotes \/ SetLabels \/ Tick

Spec == Init /\ [][Next]_vars

(* ---------------- reading the state for the properties ---------------- *)

\* name is bound to an entry (a map) in store b
Existing(b, name) == name \in DOMAIN b /\ b[name].kind = "map"

\* the field map of the entry the last call named, after and before the call
EntryNow == blobs[last.name].val

EntryBefore == last.pre[last.name].val

\* the spellings in Keys that are a protected key when case is ignored
ProtectedSpellings == {"notes", "NOTES"}

\* the lower-cased form of each spelling in Keys
Lowered == ("user" :> "user") @@ ("User" :> "user") @@ ("notes" :> "notes") @@ ("NOTES" :> "notes")

\* the snapshots of entry map B as a list: empty when it has none
SnapshotList(B) ==
    IF keySnapshots \in DOMAIN B /\ B[keySnapshots].kind = "slice"
    THEN B[keySnapshots].val
    ELSE <<>>

(* ---------------- C1 ---------------- *)

\* C1: after Set(name, key, value) on an existing entry with a key whose
\* lower-cased form is not protected, the entry holds value under the
\* lower-cased key (Get(name).User() returns "a" after Set(name, "user", "a")).
C1_SetStoresValueUnderKey ==
    (/\ last.op = "Set"
     /\ Existing(last.pre, last.name)
     /\ last.key \notin ProtectedSpellings)
    => /\ last.outcome = "ok"
       /\ Existing(blobs, last.name)
       /\ Lowered[last.key] \in DOMAIN EntryNow
       /\ EntryNow[Lowered[last.key]] = Str(last.value)

(* ---------------- C2 ---------------- *)

\* C2: Snapshot(0) is the entry as it was before the most recent snapshotting
\* mutation: after Set(name, "user", "a") then Set(name, "user", "b"),
\* Snapshot(0) succeeds and its User() is "a".
C2_SnapshotZeroIsPreMutationState ==
    (/\ prev.op = "Set" /\ prev.outcome = "ok"
     /\ prev.key = "user" /\ prev.value = "a"
     /\ last.op = "Set" /\ last.outcome = "ok"
     /\ last.key = "user" /\ last.value = "b"
     /\ last.name = prev.name)
    => LET s == Snapshot(EntryNow, 0) IN
       /\ ~s.err
       /\ User(s.B) = [panic |-> FALSE, val |-> "a"]

(* ---------------- C3 ---------------- *)

\* C3: no call Set(name, key, value) stores the caller's text value under a
\* protected field key (twofactor, notes, updated, labels, snapshots) of any
\* entry: a protected field that holds the value after the call held it before.
C3_SetNeverWritesProtectedKey ==
    last.op = "Set" =>
      \A n \in DOMAIN blobs : \A i \in 1..Len(protectedKeys) :
        LET p == protectedKeys[i] IN
        (/\ blobs[n].kind = "map"
         /\ p \in DOMAIN blobs[n].val
         /\ blobs[n].val[p] = Str(last.value))
        => /\ Existing(last.pre, n)
           /\ p \in DOMAIN last.pre[n].val
           /\ last.pre[n].val[p] = Str(last.value)

(* ---------------- C4 ---------------- *)

\* C4: Set on an existing entry with a key that is a protected key when case
\* is ignored ("notes", "NOTES") fails, and the whole store is as it was
\* before the call.
C4_ProtectedSetFailsStoreUnchanged ==
    (/\ last.op = "Set"
     /\ Existing(last.pre, last.name)
     /\ last.key \in ProtectedSpellings)
    => /\ last.outcome = "panic"
       /\ blobs = last.pre

\* a Set with the key "NOTES" has been made on an entry that holds fields
C4_Witness ==
    /\ last.op = "Set"
    /\ last.key = "NOTES"
    /\ Existing(last.pre, last.name)
    /\ DOMAIN EntryBefore # {}
    /\ last.outcome = "panic"

(* ---------------- C5 ---------------- *)

\* C5: what a successful SetTwofactor stores under twofactor is a uri that
\* parses and is of type totp, so that TwoFactor() on it gets as far as
\* generating the code; a parseable uri of another type is refused.
C5_StoredTwoFactorIsTOTP ==
    (/\ last.op = "SetTwofactor"
     /\ last.outcome = "ok")
    => /\ Existing(blobs, last.name)
       /\ TwoFactor(EntryNow) = "generate"

(* ---------------- C6 ---------------- *)

\* C6: a SetTwofactor call that returns an error leaves the entry unchanged:
\* twofactor, updated, snapshots and every other field are as before.
C6_FailedSetTwofactorLeavesEntry ==
    (/\ last.op = "SetTwofactor"
     /\ last.outcome = "error")
    => /\ Existing(blobs, last.name)
       /\ EntryNow = EntryBefore

\* SetTwofactor has returned an error on an existing entry
C6_Witness ==
    /\ last.op = "SetTwofactor"
    /\ last.outcome = "error"
    /\ Existing(last.pre, last.name)
    /\ last.value = "otpauth://%zz"

(* ---------------- C7 ---------------- *)

Setters == {"Set", "SetTwofactor", "SetNotes", "SetLabels"}

\* the arguments of the last call are ones the setter accepts
AcceptableArguments ==
    /\ last.op = "Set" => last.key \notin ProtectedSpellings
    /\ last.op = "SetTwofactor" => last.value # "otpauth://%zz"

\* C7 as claimed: a setter called with a name that is not in the store
\* makes an entry under that name and does not fail.
C7_FirstWriteCreatesEntry ==
    (/\ last.op \in Setters
     /\ last.name \notin DOMAIN last.pre
     /\ AcceptableArguments)
    => /\ last.outcome = "ok"
       /\ Existing(blobs, last.name)

\* C7 as amended: a setter called with a name that is not in the store
\* panics, and the store is unchanged: no entry is made.
C7_AbsentNamePanics ==
    (/\ last.op \in Setters
     /\ last.name \notin DOMAIN last.pre)
    => /\ last.outcome = "panic"
       /\ blobs = last.pre
       /\ last.name \notin DOMAIN blobs

\* a Set with acceptable arguments has been made with a name not in the store
C7_Witness ==
    /\ last.op = "Set"
    /\ last.key = "user"
    /\ last.name \notin DOMAIN last.pre

(* ---------------- C8 ---------------- *)

\* C8: each successful Set, SetTwofactor and SetNotes appends exactly one
\* snapshot of the pre-mutation state to the entry's snapshots list.
C8_MutationsAppendOneSnapshot ==
    (/\ last.op \in {"Set", "SetTwofactor", "SetNotes"}
     /\ last.outcome = "ok")
    => /\ keySnapshots \in DOMAIN EntryNow
       /\ EntryNow[keySnapshots] =
            Slice(Append(SnapshotList(EntryBefore),
                         Map([k \in {x \in DOMAIN EntryBefore :
                                       /\ x # keySnapshots
                                       /\ EntryBefore[x].kind \in {"string", "float64", "int64", "slice"}}
                                 |-> EntryBefore[k]])))

(* ---------------- C9 ---------------- *)

\* C9: SetLabels replaces labels and sets updated to the current time and
\* leaves snapshots and every other field as they were, whereas a successful
\* Set sets updated and also increases NSnapshots().
C9_LabelAsymmetry ==
    /\ (last.op = "SetLabels" /\ last.outcome = "ok")
       => /\ DOMAIN EntryNow = DOMAIN EntryBefore \cup {keyLabels, keyUpdated}
          /\ EntryNow[keyLabels] = Slice([i \in 1..Len(last.list) |-> Str(last.list[i])])
          /\ EntryNow[keyUpdated] = Int64(last.t)
          /\ \A k \in DOMAIN EntryBefore \ {keyLabels, keyUpdated} : EntryNow[k] = EntryBefore[k]
          /\ NSnapshots(EntryNow) = NSnapshots(EntryBefore)
    /\ (last.op = "Set" /\ last.outcome = "ok")
       => /\ keyUpdated \in DOMAIN EntryNow
          /\ EntryNow[keyUpdated] = Int64(last.t)
          /\ ~NSnapshots(EntryNow).err
          /\ NSnapshots(EntryNow).n > NSnapshots(EntryBefore).n

(* ---------------- C10 ---------------- *)

\* C10: each successful Set or SetTwofactor increases NSnapshots() of the
\* entry by exactly 1 (0 to 1 when the list is absent), a failed call leaves
\* it as it was, and two successful Sets on an entry with no history give
\* NSnapshots() == 2.
C10_NSnapshotsGrowsByOne ==
    /\ (last.op \in {"Set", "SetTwofactor"} /\ last.outcome = "ok")
       => NSnapshots(EntryNow) = [n |-> NSnapshots(EntryBefore).n + 1, err |-> FALSE]
    /\ (last.op \in {"Set", "SetTwofactor"} /\ last.outcome # "ok" /\ Existing(last.pre, last.name))
       => /\ Existing(blobs, last.name)
          /\ NSnapshots(EntryNow) = NSnapshots(EntryBefore)
    /\ (/\ prev.op = "Set" /\ prev.outcome = "ok"
        /\ last.op = "Set" /\ last.outcome = "ok"
        /\ last.name = prev.name
        /\ keySnapshots \notin DOMAIN prev.pre[prev.name].val)
       => NSnapshots(EntryNow) = [n |-> 2, err |-> FALSE]

(* ---------------- C11 ---------------- *)

\* q is a prefix of r
IsPrefix(q, r) == Len(q) <= Len(r) /\ \A i \in 1..Len(q) : r[i] = q[i]

\* C11: the snapshots list of every entry is append-only: for every call and
\* every entry, the list before the call is a prefix of the list after it
\* and the field stays a list: no element is removed, reordered or replaced,
\* so that whatever is new comes after the old elements, at the tail.
C11_SnapshotsAppendOnly ==
    \A n \in DOMAIN last.pre :
      (Existing(last.pre, n) /\ keySnapshots \in DOMAIN last.pre[n].val
         /\ last.pre[n].val[keySnapshots].kind = "slice")
      => /\ Existing(blobs, n)
         /\ keySnapshots \in DOMAIN blobs[n].val
         /\ blobs[n].val[keySnapshots].kind = "slice"
         /\ IsPrefix(last.pre[n].val[keySnapshots].val, blobs[n].val[keySnapshots].val)

(* ---------------- C12 ---------------- *)

\* C12: for an entry with N stored snapshots, Snapshot(index) fails when the
\* entry has no snapshots or when index < 0 or index >= N (so
\* Snapshot(NSnapshots()) fails), and otherwise returns the element at list
\* position N-1-index (counted from 0): index 0 is the newest snapshot and
\* index N-1 the oldest.
C12_SnapshotIndexing ==
    \A n \in DOMAIN blobs :
      Existing(blobs, n) =>
        LET B == blobs[n].val IN
        /\ keySnapshots \notin DOMAIN B
           => \A index \in -1..1 : Snapshot(B, index).err
        /\ (keySnapshots \in DOMAIN B /\ B[keySnapshots].kind = "slice")
           => LET snaps == B[keySnapshots].val
                  N == Len(snaps)
              IN \A index \in -1..(N + 1) :
                   IF index < 0 \/ index >= N
                   THEN Snapshot(B, index).err
                   ELSE /\ ~Snapshot(B, index).err
                        \* position N-1-index from 0 is position N-index from 1
                        /\ Snapshot(B, index).B = snaps[N - index].val

\* an entry holds two different snapshots, and Snapshot(0) is the later one
C12_Witness ==
    \E n \in DOMAIN blobs :
      /\ Existing(blobs, n)
      /\ keySnapshots \in DOMAIN blobs[n].val
      /\ blobs[n].val[keySnapshots].kind = "slice"
      /\ Len(blobs[n].val[keySnapshots].val) = 2
      /\ blobs[n].val[keySnapshots].val[1] # blobs[n].val[keySnapshots].val[2]
      /\ Snapshot(blobs[n].val, 0).B = blobs[n].val[keySnapshots].val[2].val
      /\ Snapshot(blobs[n].val, 2).err

(* ---------------- C13 ---------------- *)

\* C13: no snapshot holds a snapshots field: after any sequence of Set,
\* SetTwofactor, SetNotes and SetLabels calls, every element of every entry's
\* snapshots list is a map with no key named snapshots.
C13_NoNestedHistory ==
    \A n \in DOMAIN blobs :
      Existing(blobs, n) =>
        \A i \in 1..Len(SnapshotList(blobs[n].val)) :
          /\ SnapshotList(blobs[n].val)[i].kind = "map"
          /\ keySnapshots \notin DOMAIN SnapshotList(blobs[n].val)[i].val

\* a snapshot has been taken of an entry that already held a snapshots list
C13_Witness ==
    /\ last.op \in {"Set", "SetTwofactor"}
    /\ last.outcome = "ok"
    /\ keySnapshots \in DOMAIN EntryBefore
    /\ EntryBefore[keySnapshots].kind = "slice"
    /\ Len(SnapshotList(EntryNow)) = 2

(* ---------------- C14 ---------------- *)

\* time a is not after time b; the zero time is before every Unix time
NotAfter(a, b) == a.zero \/ (~b.zero /\ a.unix <= b.unix)

\* C14: with a clock that never goes backward, Updated() of an entry never
\* decreases over a call, and every successful Set, SetTwofactor, SetNotes
\* and SetLabels sets it to the current time.
C14_UpdatedMonotonic ==
    (last.op \in Setters /\ Existing(last.pre, last.name))
    => /\ Existing(blobs, last.name)
       /\ NotAfter(Updated(EntryBefore), Updated(EntryNow))
       /\ last.outcome = "ok" => Updated(EntryNow) = [zero |-> FALSE, unix |-> last.t]

(* ---------------- Find and Load ---------------- *)

\* strings.Split(s, "/") from position i on, cur being the fragment begun
RECURSIVE SplitFrom(_, _, _)
SplitFrom(s, i, cur) ==
    IF i > Len(s) THEN <<cur>>
    ELSE IF SubSeq(s, i, i) = "/" THEN <<cur>> \o SplitFrom(s, i + 1, "")
    ELSE SplitFrom(s, i + 1, cur \o SubSeq(s, i, i))

\* strings.Split(s, "/")
Split(s) == SplitFrom(s, 1, "")

\* the loops of fuzzy.MatchFold: each character of source, from the i-th on,
\* is looked for in what is left of target, from the j-th character on
RECURSIVE MatchFrom(_, _, _, _)
MatchFrom(source, i, target, j) ==
    IF i > Len(source) THEN TRUE
    ELSE IF j > Len(target) THEN FALSE
    ELSE IF LowerChar(SubSeq(source, i, i)) = LowerChar(SubSeq(target, j, j))
         THEN MatchFrom(source, i + 1, target, j + 1)
         ELSE MatchFrom(source, i, target, j + 1)

\* a match that compares the characters as they are spelled
RECURSIVE MatchFrom_CaseSensitive(_, _, _, _)
MatchFrom_CaseSensitive(source, i, target, j) ==
    IF i > Len(source) THEN TRUE
    ELSE IF j > Len(target) THEN FALSE
    ELSE IF SubSeq(source, i, i) = SubSeq(target, j, j)
         THEN MatchFrom_CaseSensitive(source, i + 1, target, j + 1)
         ELSE MatchFrom_CaseSensitive(source, i, target, j + 1)

\* fuzzy.Match in place of fuzzy.MatchFold
MatchFold_CaseSensitive(source, target) ==
    IF Len(target) < Len(source) THEN FALSE
    ELSE MatchFrom_CaseSensitive(source, 1, target, 1)

\* fuzzy.MatchFold(source, target)
MatchFold(source, target) ==
    IF Len(target) < Len(source) THEN FALSE
    ELSE MatchFrom(source, 1, target, 1)

\* Blobs.Find(search): the names it returns, as a set (their order is that
\* of the map iteration)
Find(b, s) ==
    LET fragments == Split(s)
        nFrags == Len(fragments)
    IN { k \in DOMAIN b :
           LET keyFrags == Split(k) IN
           /\ Len(keyFrags) = nFrags
           /\ \A i \in 1..nFrags : MatchFold(fragments[i], keyFrags[i]) }

\* names of the stores Find is run on
FindNames == {"abcx/cdy", "abcx", "zz/cdy", "ABx/Cd"}

\* arguments of Find
Searches == {"ab/cd", "AB/cd", "ab", "", "z/y", "ab/", "ba/cd", "a/b/c"}

\* an entry with a field of each recognized kind
FullEntry ==
    ("user" :> Str("u0")) @@ ("notes" :> Slice(<<Str("n")>>))
      @@ ("updated" :> Int64(1))
      @@ ("snapshots" :> Slice(<<Map(("user" :> Str("u")))>>))

\* the stores Find and Load are run on: every set of FindNames, each name
\* bound to an entry of the recognized kinds
ReadStores == { [n \in D |-> Map(FullEntry)] : D \in SUBSET FindNames }

InitRead ==
    /\ blobs \in ReadStores
    /\ now = 1
    /\ nops = 0
    /\ last = NoCall(blobs)
    /\ prev = NoCall(blobs)
    /\ search \in Searches
    /\ names = NoNames
    /\ loaded = NoLoad

FindCall ==
    /\ ~names.called
    /\ names' = [called |-> TRUE, names |-> Find(blobs, search)]
    /\ UNCHANGED <<blobs, now, nops, last, prev, search, loaded>>

\* the JSON value json.Marshal writes for a value
RECURSIVE ToJSON(_)
ToJSON(v) ==
    CASE v.kind = "string" -> [j |-> "string", val |-> v.val]
      [] v.kind \in {"int64", "float64"} -> [j |-> "number", val |-> v.val]
      [] v.kind = "bool" -> [j |-> "bool", val |-> v.val]
      [] v.kind = "slice" -> [j |-> "array", val |-> [i \in 1..Len(v.val) |-> ToJSON(v.val[i])]]
      [] v.kind = "map" -> [j |-> "object", val |-> [k \in DOMAIN v.val |-> ToJSON(v.val[k])]]

\* the bytes the storage layer writes for store b: a well-formed JSON
\* document, one object per entry
Serialize(b) == [valid |-> TRUE, doc |-> ToJSON(Map(b))]

\* bytes that are not a JSON document
Garbage == [valid |-> FALSE, doc |-> Str("")]

\* Load(format): json.Unmarshal first checks the syntax of the bytes and then
\* refuses its second argument, which Load passes as a map and not as a
\* pointer to one; Load returns nil and the error either way
Load(format) ==
    IF ~format.valid
    THEN [called |-> TRUE, format |-> format, err |-> "SyntaxError", blobs |-> EmptyMap]
    ELSE [called |-> TRUE, format |-> format, err |-> "InvalidUnmarshalError", blobs |-> EmptyMap]

LoadCall ==
    /\ ~loaded.called
    /\ \E format \in {Serialize(blobs), Garbage} : loaded' = Load(format)
    /\ UNCHANGED <<blobs, now, nops, last, prev, search, names>>

NextRead == FindCall \/ LoadCall

\* Find and Load run on a store of the recognized field kinds
SpecRead == InitRead /\ [][NextRead]_vars

(* ---------------- C15 ---------------- *)

\* the positions of '/' in s, and the k-th of them (0 before the first,
\* Len(s) + 1 after the last)
SlashPositions(s) == {i \in 1..Len(s) : SubSeq(s, i, i) = "/"}

SlashAt(s, k) ==
    IF k = 0 THEN 0
    ELSE IF k > Cardinality(SlashPositions(s)) THEN Len(s) + 1
    ELSE CHOOSE p \in SlashPositions(s) :
           Cardinality({q \in SlashPositions(s) : q < p}) = k - 1

SegmentCount(s) == Cardinality(SlashPositions(s)) + 1

\* the k-th '/'-separated segment of s
Segment(s, k) == SubSeq(s, SlashAt(s, k - 1) + 1, SlashAt(s, k) - 1)

\* every character of q is in c, in order, when case is ignored
ContainsInOrder(q, c) ==
    \E f \in [1..Len(q) -> 1..Len(c)] :
      /\ \A i, j \in 1..Len(q) : i < j => f[i] < f[j]
      /\ \A i \in 1..Len(q) :
           LowerChar(SubSeq(q, i, i)) = LowerChar(SubSeq(c, f[i], f[i]))

\* C15: Find(query) returns exactly the names that have as many
\* '/'-separated segments as query and whose i-th segment contains, case
\* ignored and in order, every character of the i-th query segment;
\* Find("ab/cd") returns "abcx/cdy" and neither "abcx" nor "zz/cdy".
C15_FindMatchesSegmentwise ==
    names.called =>
      /\ names.names =
           { k \in DOMAIN blobs :
               /\ SegmentCount(k) = SegmentCount(search)
               /\ \A i \in 1..SegmentCount(search) :
                    ContainsInOrder(Segment(search, i), Segment(k, i)) }
      /\ search = "ab/cd" =>
           /\ "abcx/cdy" \in DOMAIN blobs => "abcx/cdy" \in names.names
           /\ "abcx" \notin names.names
           /\ "zz/cdy" \notin names.names

\* Find("ab/cd") has been run on a store that holds the three names of the
\* example and has returned "abcx/cdy" and, case ignored, "ABx/Cd"
C15_Witness ==
    /\ names.called
    /\ search = "ab/cd"
    /\ DOMAIN blobs = FindNames
    /\ names.names = {"abcx/cdy", "ABx/Cd"}

(* ---------------- C16 ---------------- *)

\* C16: round trip: for a store built from the recognized field kinds,
\* Load of the serialized store succeeds and returns a store equal to the
\* original, every entry name and every field reproduced.
C16_RoundTrip ==
    (loaded.called /\ loaded.format = Serialize(blobs))
    => /\ loaded.err = ""
       /\ DOMAIN loaded.blobs = DOMAIN blobs
       /\ ToJSON(Map(loaded.blobs)) = ToJSON(Map(blobs))

(* ---------------- C17 ---------------- *)

\* the fields of entry map B that a snapshot is to hold: those other than
\* snapshots whose kind is text, a number or a list
SnapshotFields(B) ==
    {k \in DOMAIN B \ {keySnapshots} : B[k].kind \in {"string", "int64", "float64", "slice"}}

\* C17: the snapshot taken by a snapshotting mutation (the element at the
\* tail of the entry's list after a successful Set or SetTwofactor) holds
\* exactly the entry's fields other than snapshots of kind text, number or
\* list, each with its value from before the mutation; a field of another
\* kind is left out and the call does not fail.
C17_SnapshotHoldsCopiedKinds ==
    (/\ last.op \in {"Set", "SetTwofactor"}
     /\ last.outcome = "ok"
     /\ keySnapshots \in DOMAIN EntryNow
     /\ EntryNow[keySnapshots].kind = "slice")
    => LET snaps == EntryNow[keySnapshots].val IN
       /\ Len(snaps) >= 1
       /\ snaps[Len(snaps)].kind = "map"
       /\ DOMAIN snaps[Len(snaps)].val = SnapshotFields(EntryBefore)
       /\ \A k \in SnapshotFields(EntryBefore) : snaps[Len(snaps)].val[k] = EntryBefore[k]

\* a Set has succeeded on an entry that held a text field and a boolean
\* field, and its snapshot holds the text field only
C17_Witness ==
    /\ last.op = "Set"
    /\ last.outcome = "ok"
    /\ Existing(last.pre, last.name)
    /\ "flag" \in DOMAIN EntryBefore
    /\ EntryBefore["flag"].kind = "bool"
    /\ "pass" \in DOMAIN EntryBefore
    /\ Snapshot(EntryNow, 0).B = ("pass" :> Str("p0"))

(* ---------------- C18 ---------------- *)

\* C18: a stored snapshot is immutable: the contents of a snapshot that an
\* entry holds before a Set, SetTwofactor, SetNotes or SetLabels call, its
\* copied lists included, are the same after the call, whichever entry the
\* call names.
C18_StoredSnapshotsImmutable ==
    last.op \in Setters =>
      \A n \in DOMAIN last.pre :
        Existing(last.pre, n) =>
          /\ Existing(blobs, n)
          /\ \A i \in 1..Len(SnapshotList(last.pre[n].val)) :
               i <= Len(SnapshotList(blobs[n].val))
               => SnapshotList(blobs[n].val)[i] = SnapshotList(last.pre[n].val)[i]

\* SetNotes has replaced the notes of an entry whose stored snapshot holds a
\* copy of the earlier notes, and the snapshot still holds the earlier notes
C18_Witness ==
    /\ last.op = "SetNotes"
    /\ last.outcome = "ok"
    /\ last.list = <<"n">>
    /\ Len(SnapshotList(EntryBefore)) = 1
    /\ Len(SnapshotList(EntryNow)) = 1
    /\ keyNotes \in DOMAIN SnapshotList(EntryNow)[1].val
    /\ SnapshotList(EntryNow)[1].val[keyNotes] = Slice(<<Str("n0")>>)
    /\ EntryNow[keyNotes] = Slice(<<Str("n")>>)

(* ---------------- C19 ---------------- *)

\* C19: every setter is local to its entry: a Set, SetTwofactor, SetNotes or
\* SetLabels call with name n, whether it succeeds or fails, leaves the set
\* of names in the store and every entry other than n as they were.
C19_SettersAreLocal ==
    last.op \in Setters =>
      /\ DOMAIN blobs = DOMAIN last.pre
      /\ \A n \in DOMAIN blobs \ {last.name} : blobs[n] = last.pre[n]

\* a Set has changed its entry in a store that holds another entry with fields
C19_Witness ==
    /\ last.op = "Set"
    /\ last.outcome = "ok"
    /\ blobs[last.name] # last.pre[last.name]
    /\ \E n \in DOMAIN blobs \ {last.name} :
         /\ Existing(blobs, n)
         /\ DOMAIN blobs[n].val # {}

(* ---------------- C20 ---------------- *)

\* C20: a snapshotting mutation never discards history that is malformed:
\* when the snapshots field of an entry is present and is not a list, Set and
\* SetTwofactor keep the stored value (or fail and change nothing); they do
\* not put a fresh one-element list in its place.
C20_MalformedHistoryKept ==
    (/\ last.op \in {"Set", "SetTwofactor"}
     /\ Existing(last.pre, last.name)
     /\ keySnapshots \in DOMAIN EntryBefore
     /\ EntryBefore[keySnapshots].kind # "slice")
    => /\ Existing(blobs, last.name)
       /\ keySnapshots \in DOMAIN EntryNow
       /\ EntryNow[keySnapshots] = EntryBefore[keySnapshots]

====
